---- MODULE Spec2Model ----
(***************************************************************************)
(* Model of bioprov/src/prov.py: BioProvDocument, the assembler that walks *)
(* a Project (samples, files, programs, runs, environments, users) and     *)
(* builds a prov.model.ProvDocument out of namespaces, elements, bundles   *)
(* and relations.                                                          *)
(*                                                                         *)
(* The assembler is one constructor call; the model gives every statement  *)
(* of it that touches the document one step, so that the states "during    *)
(* assembly" are states of the model.  The operations of the prov package  *)
(* that prov.py calls (add_namespace, entity, agent, activity, bundle,     *)
(* set_default_namespace, wasDerivedFrom, namespaces) are operators here,  *)
(* with the behaviour of prov.model / prov.identifier.                     *)
(***************************************************************************)
EXTENDS Integers, Sequences, FiniteSets, TLC

(***************************************************************************)
(* Bounds of the model.                                                    *)
(***************************************************************************)
\* Size of a Project: samples + files + programs + runs + (user, env) pairs.
MaxSize == 4
\* Run keys are the strings "1" .. "MaxRunKey".
MaxRunKey == 3
\* Number of successive BioProvDocument(project) calls over one Project.
MaxAssemblies == 2

(***************************************************************************)
(* The domain model handed to the constructor.  Maps are sequences in      *)
(* their iteration order (dict.items()); two entries of a map are two      *)
(* positions, whatever the names of the objects they hold.                 *)
(***************************************************************************)
Tags == {"", "demo"}
SampleNames == {"S1", "S2"}
\* Two Files may share a name (and a path), or a path only.
Files ==
    { [name |-> "reads", path |-> "/x/reads.fq"],
      [name |-> "reads", path |-> "/y/reads.fq"],
      [name |-> "asm",   path |-> "/y/reads.fq"] }
\* A Program may be named like a File of its Sample.
ProgramNames == {"prodigal", "reads"}
Users == <<"u1", "u2">>
Envs == {"e1", "e2"}

Min(a, b) == IF a < b THEN a ELSE b

RunSets(n) == {R \in SUBSET (1..MaxRunKey) : Cardinality(R) <= n}

ProgramsOf(n) ==
    IF n < 1 THEN {} ELSE [name : ProgramNames, runs : RunSets(n - 1)]

RECURSIVE ProgramSeqs(_)
ProgramSeqs(n) ==
    {<<>>} \cup
    UNION { { <<p>> \o s : s \in ProgramSeqs(n - 1 - Cardinality(p.runs)) }
            : p \in ProgramsOf(n) }

RECURSIVE FileSeqs(_)
FileSeqs(n) ==
    {<<>>} \cup
    (IF n < 1 THEN {}
     ELSE UNION { { <<f>> \o s : s \in FileSeqs(n - 1) } : f \in Files })

RECURSIVE SumRuns(_)
SumRuns(ps) ==
    IF ps = <<>> THEN 0
    ELSE 1 + Cardinality(Head(ps).runs) + SumRuns(Tail(ps))

SampleSize(s) == 1 + Len(s.files) + SumRuns(s.programs)

SamplesOf(n) ==
    IF n < 1 THEN {}
    ELSE UNION { { [name |-> nm, files |-> f, programs |-> p]
                   : nm \in SampleNames, p \in ProgramSeqs(n - 1 - Len(f)) }
                 : f \in FileSeqs(n - 1) }

RECURSIVE SampleSeqs(_)
SampleSeqs(n) ==
    {<<>>} \cup
    UNION { { <<s>> \o t : t \in SampleSeqs(n - SampleSize(s)) }
            : s \in SamplesOf(n) }

\* envs is keyed by user, so the users of two entries differ.
EnvSeqs(n) ==
    UNION { { [i \in 1..m |-> [user |-> Users[i], env |-> f[i]]]
              : f \in [1..m -> Envs] }
            : m \in 0..Min(n, Len(Users)) }

Projects ==
    UNION { { [isProject |-> TRUE, tag |-> t, samples |-> s, envs |-> e]
              : t \in Tags, s \in SampleSeqs(MaxSize - Len(e)) }
            : e \in EnvSeqs(MaxSize) }

\* Something that is not an instance of Project.
NotAProject == [isProject |-> FALSE, tag |-> "", samples |-> <<>>, envs |-> <<>>]

Inputs == Projects \cup {NotAProject}

\* program.runs: run key (a string) -> Run.
RunsOf(program) ==
    [key \in {ToString(r) : r \in program.runs} |->
        CHOOSE run \in { [start_time |-> 10 * r, end_time |-> 10 * r + 5]
                         : r \in program.runs }
            : \E r \in program.runs :
                /\ ToString(r) = key
                /\ run = [start_time |-> 10 * r, end_time |-> 10 * r + 5]]

(***************************************************************************)
(* str() of the domain objects, as it enters identifiers and URIs.         *)
(***************************************************************************)
StrProject(p) == "Project '" \o p.tag \o "'"
StrProgram(prog) == "Program '" \o prog.name \o "'"
StrPath(file) == file.path

(***************************************************************************)
(* prov.identifier / prov.model: namespaces and qualified names.           *)
(* A Namespace is [prefix, uri]; a QualifiedName is [prefix, local]; a     *)
(* NamespaceManager is                                                     *)
(*   reg             the registered namespaces, in registration order     *)
(*   rename_map      Namespace -> Namespace it was replaced by             *)
(*   prefix_renamed  prefix -> Namespace that stands for it                *)
(*   default         URI of the default namespace, or NoDefault            *)
(***************************************************************************)
Namespace(prefix, uri) == [prefix |-> prefix, uri |-> uri]
QualifiedName(prefix, local) == [prefix |-> prefix, local |-> local]

\* valid_qualified_name() returning None.
NoneId == [prefix |-> "<None>", local |-> "<None>"]
NoDefault == "<None>"
\* An identifier string without ':' has no prefix part.
NoColon == ""

\* prov.constants: every NamespaceManager knows prov, xsd and xsi, which are
\* not registered namespaces.
DEFAULT_NAMESPACES ==
    { Namespace("prov", "http://www.w3.org/ns/prov#"),
      Namespace("xsd", "http://www.w3.org/2001/XMLSchema#"),
      Namespace("xsi", "http://www.w3.org/2001/XMLSchema-instance") }

NamespaceManager ==
    [reg |-> <<>>, rename_map |-> <<>>, prefix_renamed |-> <<>>,
     default |-> NoDefault]

Range(f) == {f[x] : x \in DOMAIN f}

\* dict view of the manager: values() and keys().
Values(m) == DEFAULT_NAMESPACES \cup Range(m.reg)
Prefixes(m) == {n.prefix : n \in Values(m)}
Lookup(m, prefix) == CHOOSE n \in Values(m) : n.prefix = prefix
UriMap(m, uri) == CHOOSE n \in Range(m.reg) : n.uri = uri

\* ProvBundle.namespaces: the registered namespaces only.
namespaces(m) == Range(m.reg)

\* NamespaceManager._get_unused_prefix: prefix_1, prefix_2, ...
RECURSIVE UnusedFrom(_, _, _)
UnusedFrom(m, prefix, count) ==
    LET new_prefix == prefix \o "_" \o ToString(count)
    IN  IF new_prefix \in Prefixes(m)
        THEN UnusedFrom(m, prefix, count + 1)
        ELSE new_prefix

get_unused_prefix(m, prefix) ==
    IF prefix \notin Prefixes(m) THEN prefix ELSE UnusedFrom(m, prefix, 1)

\* NamespaceManager.add_namespace: [m |-> the manager afterwards,
\* ns |-> the Namespace returned].  A namespace that is known is returned as
\* it is, a known URI gives the namespace registered for it, and a prefix in
\* use is renamed; nothing is rejected.
add_namespace(m, namespace) ==
    IF namespace \in Values(m) THEN [m |-> m, ns |-> namespace]
    ELSE IF namespace \in DOMAIN m.rename_map
    THEN [m |-> m, ns |-> m.rename_map[namespace]]
    ELSE IF \E n \in Range(m.reg) : n.uri = namespace.uri
    THEN LET existing_ns == UriMap(m, namespace.uri)
         IN  [m |-> [m EXCEPT
                       !.rename_map = (namespace :> existing_ns) @@ @,
                       !.prefix_renamed = (namespace.prefix :> existing_ns) @@ @],
              ns |-> existing_ns]
    ELSE IF namespace.prefix \in Prefixes(m)
    THEN LET new_namespace ==
                 Namespace(get_unused_prefix(m, namespace.prefix), namespace.uri)
         IN  [m |-> [m EXCEPT
                       !.rename_map = (namespace :> new_namespace) @@ @,
                       !.prefix_renamed = (namespace.prefix :> new_namespace) @@ @,
                       !.reg = Append(@, new_namespace)],
              ns |-> new_namespace]
    ELSE [m |-> [m EXCEPT !.reg = Append(@, namespace)], ns |-> namespace]

\* NamespaceManager.valid_qualified_name on the string "prefix:local" (or
\* "local" when prefix = NoColon), without the delegation to the parent.
QNameIn(m, prefix, local) ==
    IF prefix = NoColon /\ local = "" THEN NoneId
    ELSE IF prefix # NoColon
    THEN IF prefix \in Prefixes(m)
         THEN QualifiedName(Lookup(m, prefix).prefix, local)
         ELSE IF prefix \in DOMAIN m.prefix_renamed
         THEN QualifiedName(m.prefix_renamed[prefix].prefix, local)
         ELSE NoneId
    ELSE IF m.default # NoDefault THEN QualifiedName(NoColon, local)
    ELSE NoneId

\* valid_qualified_name of a bundle's manager m whose parent is the
\* document's manager: all attempts failing, the parent is asked.
valid_qualified_name(m, parent, prefix, local) ==
    IF QNameIn(m, prefix, local) # NoneId THEN QNameIn(m, prefix, local)
    ELSE QNameIn(parent, prefix, local)

(***************************************************************************)
(* prov.model: records, bundles, the document.                             *)
(***************************************************************************)
Element(kind, id, attrs, startTime, endTime) ==
    [kind |-> kind, id |-> id, attrs |-> attrs,
     startTime |-> startTime, endTime |-> endTime]
NoTime == -1

\* ProvBundle.wasDerivedFrom(generatedEntity, usedEntity): the relation
\* holds the identifiers of the two records it is given.
wasDerivedFrom(generatedEntity, usedEntity) ==
    [kind |-> "wasDerivedFrom", generatedEntity |-> generatedEntity.id,
     usedEntity |-> usedEntity.id]

ProvBundle(identifier) ==
    [identifier |-> identifier, ns |-> NamespaceManager, records |-> <<>>]

\* ProvDocument(): no namespace, no record, no bundle.
ProvDocument == [ns |-> NamespaceManager, records |-> <<>>, bundles |-> <<>>]

(***************************************************************************)
(* bioprov.utils.build_prov_attributes and the __dict__ of the domain      *)
(* objects: the attribute keys an element is given.                        *)
(***************************************************************************)
build_prov_attributes(keys, namespace) ==
    {namespace.prefix \o ":" \o key : key \in keys}

ProjectDict == {"tag", "_samples", "files", "envs"}
FileDict == {"name", "path", "exists"}
EnvDict == {"USER"}
env_namespace(env) == Namespace("envs", env)

\* Constructor parameters, at their defaults.
add_attributes == TRUE
add_project_namespaces == TRUE

(***************************************************************************)
(* State.                                                                  *)
(*   project   the Project the caller holds and passes to every call       *)
(*   attrs     the attributes assembly has set on the domain objects       *)
(*             (project.namespace, project.entity, sample.ProvBundle,      *)
(*             sample.ProvEntity, file.namespace, file.ProvEntity,         *)
(*             program.namespace, program.ProvActivity): they live on the  *)
(*             caller's objects and outlive the call                       *)
(*   calls     number of BioProvDocument(project) calls made               *)
(*   pc        the statement the current call is at                        *)
(*   doc       self.ProvDocument of the current call                       *)
(*   i, j, k   position in project.items(), sample.files.items(),          *)
(*             sample.programs.items() (envs.items() uses j)               *)
(*   last_run  the local of _iter_samples                                  *)
(*   err       the exception the current call raised                       *)
(*   returned  what the caller received: for every call that returned,     *)
(*             its number and the document                                 *)
(***************************************************************************)
VARIABLES project, attrs, calls, pc, doc, i, j, k, last_run, err, returned

vars == <<project, attrs, calls, pc, doc, i, j, k, last_run, err, returned>>

NoRun == [start_time |-> NoTime, end_time |-> NoTime]
NoError == "none"

\* The domain objects, by position.
TheProject == <<"project", 0, 0>>
SampleObj(si) == <<"sample", si, 0>>
FileObj(si, fj) == <<"file", si, fj>>
ProgramObj(si, pk) == <<"program", si, pk>>

\* obj.name = value, done by call number c.
SetAttr(a, obj, name, c, value) ==
    (<<obj, name>> :> [call |-> c, value |-> value]) @@ a
GetAttr(a, obj, name) == a[<<obj, name>>].value
\* Keys of obj.__dict__ that assembly put there.
SetKeys(a, obj) == {key[2] : key \in {x \in DOMAIN a : x[1] = obj}}

Init ==
    /\ project \in Inputs
    /\ attrs = <<>>
    /\ calls = 0
    /\ pc = "call"
    /\ doc = ProvDocument
    /\ i = 0 /\ j = 0 /\ k = 0
    /\ last_run = NoRun
    /\ err = NoError
    /\ returned = <<>>

\* The exception noted and assembly carried on to its end.
RaiseSwallowed(exception) ==
    /\ pc' = "_add_relationships"
    /\ err' = exception

\* An exception leaves __init__: no statement of the call follows.
Raise(exception) ==
    /\ pc' = "raised"
    /\ err' = exception

\* The bundle of the sample being processed is the last one opened.
CurBundle(d) == d.bundles[Len(d.bundles)]
WithBundle(d, b) == [d EXCEPT !.bundles[Len(d.bundles)] = b]

\* The files loop left after its first pass.
AfterFileBreak(si, fj) ==
    IF fj < 1 /\ fj < Len(project.samples[si].files) THEN "file_namespace"
    ELSE IF 0 < Len(project.samples[si].programs) THEN "program_namespace"
    ELSE IF si < Len(project.samples) THEN "bundle" ELSE "_add_relationships"

\* Where _iter_samples goes on: next file, else next program, else next
\* sample, else back in __init__.
AfterSample(si) ==
    IF si < Len(project.samples) THEN "bundle" ELSE "_add_relationships"
AfterProgram(si, pk) ==
    IF pk < Len(project.samples[si].programs) THEN "program_namespace"
    ELSE AfterSample(si)
AfterFile(si, fj) ==
    IF fj < Len(project.samples[si].files) THEN "file_namespace"
    ELSE AfterProgram(si, 0)

\* The envs loop left after its first pass.
AfterEnvBreak(n) ==
    IF n < 1 /\ n < Len(project.envs) THEN "envs"
    ELSE IF 0 < Len(project.samples) THEN "bundle" ELSE "_add_relationships"

\* Where _add_project_namespaces goes on after n entries of envs: the next
\* entry, else _iter_samples.
AfterEnv(n) ==
    IF n < Len(project.envs) THEN "envs" ELSE AfterSample(0)

\* No check of the argument at all.
IsGoodAlways(p) == TRUE

\* The condition of the assert, line 88: isinstance(project, Project).
IsGood(p) == p.isProject

\* One document shared by all calls.
ReusedProvDocument(old) == old

\* Line 91: self.ProvDocument is a new, empty document, whatever document an
\* earlier call (old) built.
NewProvDocument(old) == ProvDocument

\* __init__, lines 88-99: the assert, then a fresh ProvDocument.
Construct ==
    /\ pc = "call"
    /\ calls' = calls + 1
    /\ IF ~IsGood(project)
       THEN /\ Raise("AssertionError")
            /\ UNCHANGED doc
       ELSE /\ doc' = NewProvDocument(doc)
            /\ pc' = IF add_project_namespaces THEN "_add_project_namespace"
                     ELSE "_add_relationships"
            /\ UNCHANGED err
    /\ UNCHANGED <<project, attrs, i, j, k, last_run, returned>>

\* _add_project_namespace, lines 153-172.
AddProjectNamespace ==
    /\ pc = "_add_project_namespace"
    /\ LET r == add_namespace(doc.ns, Namespace("project", StrProject(project)))
           a1 == SetAttr(attrs, TheProject, "namespace", calls, r.ns)
           id == QNameIn(r.m, "project", StrProject(project))
           keys == (ProjectDict \cup SetKeys(a1, TheProject)) \ {"_samples", "files"}
           ent == Element("entity", id,
                          IF add_attributes THEN build_prov_attributes(keys, r.ns)
                          ELSE {}, NoTime, NoTime)
       IN  IF id = NoneId
           THEN /\ doc' = [doc EXCEPT !.ns = r.m]
                /\ attrs' = a1
                /\ Raise("ProvElementIdentifierRequired")
           ELSE /\ doc' = [doc EXCEPT !.ns = r.m, !.records = Append(@, ent)]
                /\ attrs' = SetAttr(a1, TheProject, "entity", calls, ent)
                /\ pc' = "_add_samples_namespace"
                /\ UNCHANGED err
    /\ UNCHANGED <<project, calls, i, j, k, last_run, returned>>

\* _add_samples_namespace, lines 181-186.
AddSamplesNamespace ==
    /\ pc = "_add_samples_namespace"
    /\ doc' = [doc EXCEPT !.ns = add_namespace(@,
                  Namespace("samples",
                      "Samples associated with bioprov Project '"
                          \o project.tag \o "'")).m]
    /\ pc' = "_add_activities_namespace"
    /\ UNCHANGED <<project, attrs, calls, i, j, k, last_run, err, returned>>

\* The guard of _add_activities_namespace, line 247.
NoNamespaceYet(d) == Cardinality(namespaces(d.ns)) = 0

\* _add_activities_namespace, lines 241-253.
AddActivitiesNamespace ==
    /\ pc = "_add_activities_namespace"
    /\ doc' = IF NoNamespaceYet(doc)
              THEN [doc EXCEPT !.ns = add_namespace(@,
                       Namespace("activities",
                           "Activities associated with bioprov Project '"
                               \o project.tag \o "'")).m]
              ELSE doc
    /\ pc' = "_add_env_and_user_namespace"
    /\ UNCHANGED <<project, attrs, calls, i, j, k, last_run, err, returned>>

\* _add_env_and_user_namespace, lines 121-126: the two namespaces.
AddEnvAndUserNamespace ==
    /\ pc = "_add_env_and_user_namespace"
    /\ LET m1 == add_namespace(doc.ns,
                     Namespace("envs",
                         "Environments associated with BioProv Project '"
                             \o project.tag \o "'")).m
           m2 == add_namespace(m1,
                     Namespace("users",
                         "Users associated with BioProv Project '"
                             \o project.tag \o "'")).m
       IN  doc' = [doc EXCEPT !.ns = m2]
    /\ j' = 0
    /\ pc' = AfterEnv(0)
    /\ UNCHANGED <<project, attrs, calls, i, k, last_run, err, returned>>

\* _add_env_and_user_namespace, lines 128-139: one (user, env) entry.
AddEnvAndUser ==
    /\ pc = "envs"
    /\ LET entry == project.envs[j + 1]
           env_id == QNameIn(doc.ns, "envs", entry.env)
           user_id == QNameIn(doc.ns, "users", entry.user)
           ent == Element("entity", env_id,
                          IF add_attributes
                          THEN build_prov_attributes(EnvDict, env_namespace(entry.env))
                          ELSE {}, NoTime, NoTime)
           agent == Element("agent", user_id, {}, NoTime, NoTime)
       IN  IF env_id = NoneId
           THEN /\ Raise("ProvElementIdentifierRequired")
                /\ UNCHANGED <<doc, j>>
           ELSE IF user_id = NoneId
           THEN /\ Raise("ProvElementIdentifierRequired")
                /\ doc' = [doc EXCEPT !.records = Append(@, ent)]
                /\ UNCHANGED j
           ELSE /\ doc' = [doc EXCEPT !.records = Append(Append(@, ent), agent)]
                /\ j' = j + 1
                /\ pc' = AfterEnv(j + 1)
                /\ UNCHANGED err
    /\ i' = 0
    /\ UNCHANGED <<project, attrs, calls, k, last_run, returned>>

\* ProvDocument.bundle(identifier): a second bundle of the same identifier
\* is refused.
BundleExists(d, identifier) ==
    \E n \in 1..Len(d.bundles) : d.bundles[n].identifier = identifier

\* _iter_samples, lines 196-200: bundle, default namespace, sample entity.
OpenBundle ==
    /\ pc = "bundle"
    /\ LET sample == project.samples[i + 1]
           identifier == QNameIn(doc.ns, "samples", sample.name)
           b0 == [ProvBundle(identifier) EXCEPT !.ns.default = sample.name]
           a1 == SetAttr(attrs, SampleObj(i + 1), "ProvBundle", calls, identifier)
           id == valid_qualified_name(b0.ns, doc.ns, NoColon, sample.name)
           ent == Element("entity", id, {}, NoTime, NoTime)
       IN  IF identifier = NoneId \/ BundleExists(doc, identifier)
           THEN /\ Raise("ProvException")
                /\ UNCHANGED <<doc, attrs, i>>
           ELSE IF id = NoneId
           THEN /\ Raise("ProvElementIdentifierRequired")
                /\ doc' = [doc EXCEPT !.bundles = Append(@, b0)]
                /\ attrs' = a1
                /\ UNCHANGED i
           ELSE /\ doc' = [doc EXCEPT !.bundles =
                              Append(@, [b0 EXCEPT !.records = <<ent>>])]
                /\ attrs' = SetAttr(a1, SampleObj(i + 1), "ProvEntity", calls, ent)
                /\ i' = i + 1
                /\ pc' = "files_namespace"
                /\ UNCHANGED err
    /\ j' = 0 /\ k' = 0
    /\ UNCHANGED <<project, calls, last_run, returned>>

files_namespace_prefix(sample) == sample.name \o ".files"
programs_namespace_prefix(sample) == sample.name \o ".programs"

\* _iter_samples, lines 203-207: the namespace of the sample's files.
AddFilesNamespace ==
    /\ pc = "files_namespace"
    /\ LET sample == project.samples[i]
           b == CurBundle(doc)
           r == add_namespace(b.ns,
                    Namespace(files_namespace_prefix(sample),
                              "Files associated with Sample " \o sample.name))
       IN  doc' = WithBundle(doc, [b EXCEPT !.ns = r.m])
    /\ pc' = AfterFile(i, 0)
    /\ UNCHANGED <<project, attrs, calls, i, j, k, last_run, err, returned>>

\* _iter_samples, lines 209-211: file.namespace.
AddFileNamespace ==
    /\ pc = "file_namespace"
    /\ LET file == project.samples[i].files[j + 1]
           b == CurBundle(doc)
           r == add_namespace(b.ns, Namespace(file.name, StrPath(file)))
       IN  /\ doc' = WithBundle(doc, [b EXCEPT !.ns = r.m])
           /\ attrs' = SetAttr(attrs, FileObj(i, j + 1), "namespace", calls, r.ns)
    /\ pc' = "file_entity"
    /\ UNCHANGED <<project, calls, i, j, k, last_run, err, returned>>

\* ProvBundle.entity / activity / agent: the record is appended; an
\* identifier already in use is no obstacle.
add_record(b, record) == [b EXCEPT !.records = Append(@, record)]

\* _iter_samples, lines 212-217: file.ProvEntity.
AddFileEntity ==
    /\ pc = "file_entity"
    /\ LET sample == project.samples[i]
           file == sample.files[j + 1]
           b == CurBundle(doc)
           id == valid_qualified_name(b.ns, doc.ns,
                     files_namespace_prefix(sample), file.name)
           keys == FileDict \cup SetKeys(attrs, FileObj(i, j + 1))
           ent == Element("entity", id,
                     build_prov_attributes(keys,
                         GetAttr(attrs, FileObj(i, j + 1), "namespace")),
                     NoTime, NoTime)
       IN  IF id = NoneId
           THEN /\ Raise("ProvElementIdentifierRequired")
                /\ UNCHANGED <<doc, attrs>>
           ELSE /\ doc' = WithBundle(doc, add_record(b, ent))
                /\ attrs' = SetAttr(attrs, FileObj(i, j + 1), "ProvEntity", calls, ent)
                /\ pc' = "file_derivation"
                /\ UNCHANGED err
    /\ UNCHANGED <<project, calls, i, j, k, last_run, returned>>

\* The sample's bundle handed over in place of the sample's entity.
DerivationOfBundle(a, si, fj) ==
    wasDerivedFrom(GetAttr(a, FileObj(si, fj), "ProvEntity"),
                   [id |-> GetAttr(a, SampleObj(si), "ProvBundle")])

\* The two records line 218-219 hands to wasDerivedFrom.
DerivationOf(a, si, fj) ==
    wasDerivedFrom(GetAttr(a, FileObj(si, fj), "ProvEntity"),
                   GetAttr(a, SampleObj(si), "ProvEntity"))

\* _iter_samples, lines 218-220: the derivation of the file from the sample.
AddFileDerivation ==
    /\ pc = "file_derivation"
    /\ doc' = WithBundle(doc,
                  add_record(CurBundle(doc), DerivationOf(attrs, i, j + 1)))
    /\ j' = j + 1
    /\ pc' = AfterFile(i, j + 1)
    /\ UNCHANGED <<project, attrs, calls, i, k, last_run, err, returned>>

\* _iter_samples, lines 225-227: program.namespace.
AddProgramNamespace ==
    /\ pc = "program_namespace"
    /\ LET program == project.samples[i].programs[k + 1]
           b == CurBundle(doc)
           r == add_namespace(b.ns, Namespace(program.name, StrProgram(program)))
       IN  /\ doc' = WithBundle(doc, [b EXCEPT !.ns = r.m])
           /\ attrs' = SetAttr(attrs, ProgramObj(i, k + 1), "namespace", calls, r.ns)
    /\ pc' = "last_run"
    /\ UNCHANGED <<project, calls, i, j, k, last_run, err, returned>>

\* The key line 228 looks up: str(len(program.runs)).
LastRunKey(runs) == ToString(Cardinality(DOMAIN runs))

\* _iter_samples, line 228: last_run.
SelectLastRun ==
    /\ pc = "last_run"
    /\ LET runs == RunsOf(project.samples[i].programs[k + 1])
       IN  IF LastRunKey(runs) \in DOMAIN runs
           THEN /\ last_run' = runs[LastRunKey(runs)]
                /\ pc' = "program_activity"
                /\ UNCHANGED err
           ELSE /\ Raise("KeyError")
                /\ UNCHANGED last_run
    /\ UNCHANGED <<project, attrs, calls, doc, i, j, k, returned>>

\* _iter_samples, lines 229-233: program.ProvActivity.
AddProgramActivity ==
    /\ pc = "program_activity"
    /\ LET sample == project.samples[i]
           program == sample.programs[k + 1]
           b == CurBundle(doc)
           id == valid_qualified_name(b.ns, doc.ns,
                     programs_namespace_prefix(sample), program.name)
           act == Element("activity", id, {},
                          last_run.start_time, last_run.end_time)
       IN  IF id = NoneId
           THEN /\ Raise("ProvElementIdentifierRequired")
                /\ UNCHANGED <<doc, attrs, k>>
           ELSE /\ doc' = WithBundle(doc, add_record(b, act))
                /\ attrs' = SetAttr(attrs, ProgramObj(i, k + 1), "ProvActivity",
                                    calls, act)
                /\ k' = k + 1
                /\ pc' = AfterProgram(i, k + 1)
                /\ UNCHANGED err
    /\ UNCHANGED <<project, calls, i, j, last_run, returned>>

\* The project attributed to its first user, as in the lines commented out.
add_relationships_attributed(d) ==
    [d EXCEPT !.records = Append(@,
        [kind |-> "wasAttributedTo",
         entity |-> QualifiedName("project", StrProject(project)),
         agent |-> QualifiedName("users", Users[1])])]

\* The body of _add_relationships, lines 265-266: pass.
add_relationships(d) == d

\* _add_relationships, and the return of __init__, line 102: the caller
\* holds the BioProvDocument.
AddRelationships ==
    /\ pc = "_add_relationships"
    /\ doc' = add_relationships(doc)
    /\ returned' = Append(returned, [call |-> calls, doc |-> doc'])
    /\ pc' = "done"
    /\ UNCHANGED <<project, attrs, calls, i, j, k, last_run, err>>

\* The caller constructs a BioProvDocument over the same Project again,
\* after a document or after an exception.
CallAgain ==
    /\ pc \in {"done", "raised"}
    /\ calls < MaxAssemblies
    /\ pc' = "call"
    /\ err' = NoError
    /\ i' = 0 /\ j' = 0 /\ k' = 0
    /\ last_run' = NoRun
    /\ UNCHANGED <<project, attrs, calls, doc, returned>>

Next ==
    \/ Construct
    \/ AddProjectNamespace
    \/ AddSamplesNamespace
    \/ AddActivitiesNamespace
    \/ AddEnvAndUserNamespace
    \/ AddEnvAndUser
    \/ OpenBundle
    \/ AddFilesNamespace
    \/ AddFileNamespace
    \/ AddFileEntity
    \/ AddFileDerivation
    \/ AddProgramNamespace
    \/ SelectLastRun
    \/ AddProgramActivity
    \/ AddRelationships
    \/ CallAgain

Spec == Init /\ [][Next]_vars

(***************************************************************************)
(* Views of a document.                                                    *)
(***************************************************************************)
IsElement(record) == record.kind \in {"entity", "agent", "activity"}
IsRelation(record) == ~IsElement(record)
Elements(records) == SelectSeq(records, IsElement)
Relations(records) == SelectSeq(records, IsRelation)
Ids(records) == [n \in 1..Len(Elements(records)) |-> Elements(records)[n].id]
PrefixesOf(m) == [n \in 1..Len(m.reg) |-> m.reg[n].prefix]

\* The documents in existence: the one of the current call and the ones
\* the caller received.
Documents == {doc} \cup {returned[n].doc : n \in 1..Len(returned)}
Finished == {returned[n].doc : n \in 1..Len(returned)}

\* Positions of the records of a bundle that are elements with this id.
ElementsAt(records, id) ==
    {n \in 1..Len(records) : IsElement(records[n]) /\ records[n].id = id}

(***************************************************************************)
(* C1 -- Referential integrity.  In every state, in the document under     *)
(* assembly as in the finished ones, each relation of a bundle has its two *)
(* endpoint identifiers among the identifiers of elements that stand       *)
(* before it in that bundle or in the document: the derivation is          *)
(* appended after the file entity and the sample entity.                   *)
(***************************************************************************)
Resolves(d, b, n, id) ==
    \/ \E m \in ElementsAt(b.records, id) : m < n
    \/ ElementsAt(d.records, id) # {}

C1_ReferentialIntegrity ==
    \A d \in Documents :
        \A x \in 1..Len(d.bundles) :
            LET b == d.bundles[x]
            IN  \A n \in 1..Len(b.records) :
                    IsRelation(b.records[n]) =>
                        /\ Resolves(d, b, n, b.records[n].generatedEntity)
                        /\ Resolves(d, b, n, b.records[n].usedEntity)

\* Assembly is under way, one derivation is in place and the next file of
\* the sample is about to be processed.
C1_Witness ==
    /\ pc = "file_namespace"
    /\ j = 1
    /\ Len(Relations(CurBundle(doc).records)) = 1

(***************************************************************************)
(* C2 -- Uniqueness, as claimed.  In every finished document no two        *)
(* namespaces of one scope share a prefix, no two nodes share an           *)
(* identifier, and no scope has taken a namespace whose prefix it already  *)
(* had (such a namespace would have been rejected, so no scope has renamed *)
(* one or mapped it to an existing one).                                   *)
(***************************************************************************)
NoDuplicate(seq) == \A n, m \in 1..Len(seq) : seq[n] = seq[m] => n = m

RECURSIVE BundleIds(_, _)
BundleIds(d, x) ==
    IF x = 0 THEN <<>> ELSE BundleIds(d, x - 1) \o Ids(d.bundles[x].records)
AllIds(d) == Ids(d.records) \o BundleIds(d, Len(d.bundles))

Scopes(d) == {d.ns} \cup {d.bundles[x].ns : x \in 1..Len(d.bundles)}

C2_PrefixesUnique ==
    \A d \in Finished : \A m \in Scopes(d) : NoDuplicate(PrefixesOf(m))

C2_Uniqueness ==
    \A d \in Finished :
        /\ \A m \in Scopes(d) : NoDuplicate(PrefixesOf(m))
        /\ NoDuplicate(AllIds(d))
        /\ \A m \in Scopes(d) : DOMAIN m.rename_map = {}

(***************************************************************************)
(* C3 -- Duplicate file names, as claimed.  No bundle ever holds two       *)
(* elements with the same identifier: creating the entity of a second File *)
(* of the same name fails.                                                 *)
(***************************************************************************)
C3_DuplicateFileRejected ==
    \A d \in Documents :
        \A x \in 1..Len(d.bundles) : NoDuplicate(Ids(d.bundles[x].records))

(***************************************************************************)
(* C4 -- Run selection, as claimed.  For the Program being processed, the  *)
(* selection of line 228 succeeds only on a run map keyed "1".."n", n >= 1 *)
(* (an empty or a sparse map fails it), and the run selected, whose times  *)
(* the activity is given, is then the one keyed "n".                       *)
(***************************************************************************)
Contiguous(R) == R # {} /\ R = 1..Cardinality(R)
CurProgram == project.samples[i].programs[k + 1]

C4_RunSelection ==
    pc = "program_activity" =>
        /\ Contiguous(CurProgram.runs)
        /\ last_run = RunsOf(CurProgram)[ToString(Cardinality(CurProgram.runs))]

\* The part of C4 the code does keep: a Program without runs fails the call
\* at the selection, with KeyError.
C4_EmptyRunsFail ==
    (pc = "program_activity") => CurProgram.runs # {}

(***************************************************************************)
(* C5 -- Cardinality.  In every document a call returned, there are as     *)
(* many bundles as the Project has samples (none for none, and then no     *)
(* relation either); the bundle of a sample has as many entities besides   *)
(* the sample's own as the sample has files; and the activities of the     *)
(* bundles are as many as the programs that have at least one run.         *)
(***************************************************************************)
OfKind(records, kind) == {n \in 1..Len(records) : records[n].kind = kind}

RECURSIVE ProgramsWithRuns(_)
ProgramsWithRuns(ps) ==
    IF ps = <<>> THEN 0
    ELSE (IF Head(ps).runs # {} THEN 1 ELSE 0) + ProgramsWithRuns(Tail(ps))

C6_GlobalNamespaces ==
    \A d \in Finished :
        Range(PrefixesOf(d.ns)) = {"project", "samples", "activities", "envs", "users"}

\* What the code registers instead.
C6_WithoutActivities ==
    \A d \in Finished :
        PrefixesOf(d.ns) = <<"project", "samples", "envs", "users">>

(***************************************************************************)
(* C7 -- Relations of a finished document.  The relations of the bundle of *)
(* a sample are exactly one derivation per File, in the order of the file  *)
(* map, from <sample>.files:<file name> to the sample's entity; there is   *)
(* no relation of another kind, in a bundle or in the document.            *)
(***************************************************************************)
C7_Derivations ==
    \A d \in Finished :
        /\ Relations(d.records) = <<>>
        /\ \A x \in 1..Len(d.bundles) :
               LET sample == project.samples[x]
               IN  Relations(d.bundles[x].records) =
                       [n \in 1..Len(sample.files) |->
                           [kind |-> "wasDerivedFrom",
                            generatedEntity |->
                                QualifiedName(sample.name \o ".files",
                                              sample.files[n].name),
                            usedEntity |-> QualifiedName(NoColon, sample.name)]]

\* A document was returned whose first bundle has two derivations.
C7_Witness ==
    /\ pc = "done"
    /\ Len(project.samples) >= 1
    /\ Len(Relations(returned[1].doc.bundles[1].records)) = 2

(***************************************************************************)
(* C8 -- Entry validation.                                                 *)
(* As claimed: an input that is not a Project, or whose tag is empty,      *)
(* fails the call before any namespace, node or bundle exists.             *)
(* As amended: an input that is not a Project fails the call, with the     *)
(* AssertionError of line 88, before any namespace, node or bundle exists  *)
(* and before anything is stored on it; the tag is not looked at.          *)
(***************************************************************************)
NothingCreated ==
    /\ pc \in {"call", "raised"}
    /\ doc = ProvDocument
    /\ attrs = <<>>
    /\ returned = <<>>
    /\ pc = "raised" => err = "AssertionError"

C8_ShapeValidation ==
    (~project.isProject \/ project.tag = "") => NothingCreated

C8_TypeValidation ==
    ~project.isProject => NothingCreated

\* The call on something that is not a Project has raised.
C8_Witness ==
    /\ ~project.isProject
    /\ pc = "raised"
    /\ calls = 1

(***************************************************************************)
(* C9 -- Failure.                                                          *)
(* As claimed: once a call has raised, the caller holds no document of it  *)
(* and nothing that call built is referred to by the domain objects.       *)
(* As amended: a call in which a step fails ends there and hands the       *)
(* caller no document; what the call stored on the project, samples,       *)
(* files and programs before the failure stays on them and refers to the   *)
(* abandoned document.                                                     *)
(***************************************************************************)
StoredBy(c) == {key \in DOMAIN attrs : attrs[key].call = c}
ReturnedBy(c) == {n \in 1..Len(returned) : returned[n].call = c}

C9_NothingReachable ==
    pc = "raised" => (ReturnedBy(calls) = {} /\ StoredBy(calls) = {})

C9_NoDocumentOnFailure ==
    err # NoError =>
        /\ pc = "raised"
        /\ ReturnedBy(calls) = {}
        /\ IsGood(project) =>
               /\ <<TheProject, "namespace">> \in StoredBy(calls)
               /\ \A x \in 1..Len(doc.bundles) :
                      <<SampleObj(x), "ProvBundle">> \in StoredBy(calls)

\* The call failed on the second sample, the first one bundled.
C9_Witness ==
    /\ pc = "raised"
    /\ i = 2
    /\ Len(doc.bundles) = 2
    /\ <<FileObj(1, 1), "ProvEntity">> \in StoredBy(calls)

(***************************************************************************)
(* C10 -- Determinism.  The documents the caller received for one Project  *)
(* have the same global and bundle-local namespace prefixes, the same node *)
(* identifiers and the same relations, in the same order.                  *)
(***************************************************************************)
Shape(d) ==
    [prefixes |-> PrefixesOf(d.ns),
     ids |-> Ids(d.records),
     relations |-> Relations(d.records),
     bundles |-> [x \in 1..Len(d.bundles) |->
                     [identifier |-> d.bundles[x].identifier,
                      prefixes |-> PrefixesOf(d.bundles[x].ns),
                      ids |-> Ids(d.bundles[x].records),
                      relations |-> Relations(d.bundles[x].records)]]]

C10_Determinism ==
    \A n, m \in 1..Len(returned) :
        Shape(returned[n].doc) = Shape(returned[m].doc)

\* Two documents were returned, the second built over the attributes the
\* first call left: they differ (in the attributes of their entities), and
\* they have a bundle with a file in it.
C10_Witness ==
    /\ Len(returned) = 2
    /\ returned[1].doc # returned[2].doc
    /\ Len(returned[2].doc.bundles) >= 1
    /\ Len(Relations(returned[2].doc.bundles[1].records)) >= 1

(***************************************************************************)
(* C11 -- Phases of a call.                                                *)
(* As claimed: while a call runs, no node exists before the last global    *)
(* namespace is opened, no bundle before every environment entity and user *)
(* agent is registered, and no relation before every sample is bundled.    *)
(* As amended: a call goes through opening the global namespaces (the      *)
(* project entity is created with the first of them), registering the      *)
(* environments and users, bundling the samples (each derivation is added  *)
(* with its file, inside the bundling), wiring relations, and returning,   *)
(* in that order and without going back; and no bundle exists before every *)
(* environment entity and user agent is registered.                        *)
(***************************************************************************)
Running == pc \notin {"call", "raised", "done"}

Phase(at) ==
    CASE at = "call" -> 0
      [] at \in {"_add_project_namespace", "_add_samples_namespace",
                 "_add_activities_namespace", "_add_env_and_user_namespace"} -> 1
      [] at = "envs" -> 2
      [] at \in {"bundle", "files_namespace", "file_namespace", "file_entity",
                 "file_derivation", "program_namespace", "last_run",
                 "program_activity"} -> 3
      [] at = "_add_relationships" -> 4
      [] at = "done" -> 5
      [] OTHER -> 6

AnyNode(d) == Len(AllIds(d)) > 0
AnyRelation(d) ==
    \/ Len(Relations(d.records)) > 0
    \/ \E x \in 1..Len(d.bundles) : Len(Relations(d.bundles[x].records)) > 0
EnvsAndUsersRegistered(d) ==
    /\ Cardinality(OfKind(d.records, "agent")) = Len(project.envs)
    /\ Cardinality(OfKind(d.records, "entity")) = 1 + Len(project.envs)

C11_PhasesAsClaimed ==
    Running =>
        /\ AnyNode(doc) => Phase(pc) >= 2
        /\ Len(doc.bundles) > 0 => EnvsAndUsersRegistered(doc)
        /\ AnyRelation(doc) =>
               (Phase(pc) >= 4 /\ Len(doc.bundles) = Len(project.samples))

C11_BundlesAfterEnvs ==
    (Running /\ Len(doc.bundles) > 0) =>
        (EnvsAndUsersRegistered(doc) /\ Phase(pc) >= 3)

C11_PhaseOrder ==
    /\ [](C11_BundlesAfterEnvs)
    /\ [][ /\ pc' \notin {"call", "raised"} => Phase(pc') >= Phase(pc)
           /\ Phase(pc') = Phase(pc) => Phase(pc) \in {1, 2, 3}
           /\ pc' = "call" => pc \in {"done", "raised"} ]_vars

\* The second sample is about to be bundled, after two environments with
\* their users were registered.
C11_Witness ==
    /\ pc = "bundle"
    /\ i = 1
    /\ Len(project.envs) = 2
    /\ EnvsAndUsersRegistered(doc)

(***************************************************************************)
(* C12 -- Bundle-local namespaces, as claimed.  When the entity of a File  *)
(* is about to be created, <sample>.files is a registered namespace of the *)
(* sample's bundle, and when the activity of a Program is about to be      *)
(* created, <sample>.programs is one; the nodes of Files and Programs are  *)
(* records of the sample's bundle, never of the document.                  *)
(***************************************************************************)
Registered(m, prefix) == prefix \in Range(PrefixesOf(m))

C12_BundleNamespaces ==
    /\ pc = "file_entity" =>
           Registered(CurBundle(doc).ns,
                      files_namespace_prefix(project.samples[i]))
    /\ pc = "program_activity" =>
           Registered(CurBundle(doc).ns,
                      programs_namespace_prefix(project.samples[i]))
    /\ \A d \in Documents :
           \A n \in 1..Len(Elements(d.records)) :
               Elements(d.records)[n].id.prefix \in {"project", "envs", "users"}

\* What the code keeps of it: the files namespace is open in the bundle when
\* a file entity is created, and no File or Program node is global.
C12_FilesNamespaceOnly ==
    /\ pc = "file_entity" =>
           Registered(CurBundle(doc).ns,
                      files_namespace_prefix(project.samples[i]))
    /\ \A d \in Documents :
           \A n \in 1..Len(Elements(d.records)) :
               Elements(d.records)[n].id.prefix \in {"project", "envs", "users"}

\* No activity is ever created: creating one always raises.
C12_NoActivityEver ==
    \A d \in Documents :
        \A x \in 1..Len(d.bundles) : OfKind(d.bundles[x].records, "activity") = {}

(***************************************************************************)
(* C13 -- Back-references, as claimed.  Every node of the document of the  *)
(* current call, global or in a bundle, is the value of an attribute that  *)
(* this call has set on a domain object, from the step that created it on. *)
(***************************************************************************)
Recorded(element) ==
    \E key \in StoredBy(calls) : attrs[key].value = element

AllElements(d) ==
    Range(Elements(d.records)) \cup
    UNION {Range(Elements(d.bundles[x].records)) : x \in 1..Len(d.bundles)}

C13_EveryNodeRecorded ==
    \A element \in AllElements(doc) : Recorded(element)

\* What the code keeps of it: the project entity and the nodes of the
\* bundles are recorded; the environment entities and user agents are not.
C13_AllButEnvsAndUsers ==
    \A element \in AllElements(doc) :
        element.id.prefix \notin {"envs", "users"} => Recorded(element)

====
